---- MODULE Spec2Model ----
\* Circuit breaker (CircuitBreaker.Execute, onSuccess, onFailure) and the
\* retry executor (Retry) of failover.go, as state machines.
EXTENDS Integers, Sequences, FiniteSets, TLC

\* ---------------------------------------------------------------- bounds
NumCallers == 2      \* goroutines calling Execute on the one breaker
MaxThreshold == 2    \* failureThreshold, successThreshold range over 1..MaxThreshold
MaxTimeout == 1      \* openTimeout ranges over 0..MaxTimeout clock ticks
MaxTime == 3         \* the wall clock stops ticking here
MaxWork == 4         \* no new Execute starts once work ran this many times
MaxAttempts == 3     \* Retry's attempts ranges over 0..MaxAttempts
MaxDelay == 1        \* Retry's initialDelay ranges over 0..MaxDelay

Callers == 1..NumCallers

\* ---------------------------------------------------------------- values
\* State (failover.go:50-59)
Closed == "Closed"
Open == "Open"
HalfOpen == "HalfOpen"
States == {Closed, Open, HalfOpen}

\* error values: nil, the sentinel, and the errors a work function returns
Nil == "nil"
ErrCircuitOpen == "ErrCircuitOpen"
WorkErrors == {"errTest", "errOther"}
WorkResults == {Nil} \cup WorkErrors
None == "none"       \* no value yet (local not assigned / call not returned)
\* what ctx.Err() returns once ctx.Done() is closed
CtxErrors == {"context.Canceled", "context.DeadlineExceeded"}

VARIABLES
  \* CircuitBreaker fields
  state, failureThreshold, successThreshold, openTimeout,
  failureCount, successCount, lastFailureTime, mu,
  \* environment: wall clock, and per goroutine its position in Execute,
  \* the local err, the value Execute returned
  now, pc, err, ret,
  \* number of times a work function has been invoked through the breaker
  workCount,
  \* the most recent critical section of Execute: which one, and the state and
  \* counters as it found them
  last

cbVars == <<state, failureThreshold, successThreshold, openTimeout,
            failureCount, successCount, lastFailureTime, mu,
            now, pc, err, ret, workCount, last>>

VARIABLES
  \* Retry's parameters: attempts, initialDelay, and fn given as the result of
  \* its 1st, 2nd, ... invocation; ctxErr is ctx.Err() (None until cancelled)
  attempts, initialDelay, fn, ctxErr,
  \* Retry's locals, its position, and the value it returned
  i, delay, retryErr, rpc, rret,
  \* number of times Retry has invoked fn
  fnCalls,
  \* where Retry was, and how often it had invoked fn, when ctx was cancelled
  cancelPc, cancelCalls,
  \* the durations given to time.After by the waits Retry has started, in order
  waits

retryVars == <<attempts, initialDelay, fn, ctxErr, i, delay, retryErr, rpc, rret,
               fnCalls, cancelPc, cancelCalls, waits>>

vars == <<cbVars, retryVars>>

NoEvent == [op |-> None, state |-> Closed, failureCount |-> 0, successCount |-> 0]

Event(op) == [op |-> op, state |-> state, failureCount |-> failureCount,
              successCount |-> successCount]

\* NewCircuitBreaker: Closed, zero counters, zero lastFailureTime, unlocked.
\* The clock starts after the zero time.
NewCircuitBreaker(F, S, T) ==
  /\ state = Closed
  /\ failureThreshold = F
  /\ successThreshold = S
  /\ openTimeout = T
  /\ failureCount = 0
  /\ successCount = 0
  /\ lastFailureTime = 0
  /\ mu = 0

InitCB ==
  /\ \E F \in 1..MaxThreshold, S \in 1..MaxThreshold, T \in 0..MaxTimeout :
       NewCircuitBreaker(F, S, T)
  /\ now = 1
  /\ pc = [c \in Callers |-> "idle"]
  /\ err = [c \in Callers |-> None]
  /\ ret = [c \in Callers |-> None]
  /\ workCount = 0
  /\ last = NoEvent

\* variant: the cooldown counts as over at exactly openTimeout
CooldownElapsedGe == now - lastFailureTime >= openTimeout

\* time.Since(cb.lastFailureTime) > cb.openTimeout
CooldownElapsed == now - lastFailureTime > openTimeout

\* cb.mu.Lock() at the top of Execute
Lock1(c) ==
  /\ pc[c] = "idle"
  /\ workCount < MaxWork
  /\ mu = 0
  /\ mu' = c
  /\ pc' = [pc EXCEPT ![c] = "gate"]
  /\ err' = [err EXCEPT ![c] = None]
  /\ ret' = [ret EXCEPT ![c] = None]
  /\ UNCHANGED <<state, failureThreshold, successThreshold, openTimeout,
                 failureCount, successCount, lastFailureTime, now, workCount, last>>
  /\ UNCHANGED retryVars

\* variant: the rejected branch returns without unlocking
RejectKeepLock(c) ==
  /\ mu' = c
  /\ pc' = [pc EXCEPT ![c] = "idle"]
  /\ ret' = [ret EXCEPT ![c] = ErrCircuitOpen]
  /\ last' = Event("reject")
  /\ UNCHANGED <<state, successCount, workCount>>

\* the rejected branch: Unlock, return ErrCircuitOpen
Reject(c) ==
  /\ mu' = 0
  /\ pc' = [pc EXCEPT ![c] = "idle"]
  /\ ret' = [ret EXCEPT ![c] = ErrCircuitOpen]
  /\ last' = Event("reject")
  /\ UNCHANGED <<state, successCount, workCount>>

\* variant: the lock stays held while the work function runs
AdmitHoldLock(c, op) ==
  /\ mu' = c
  /\ pc' = [pc EXCEPT ![c] = "work"]
  /\ workCount' = workCount + 1
  /\ last' = Event(op)
  /\ UNCHANGED ret

\* Unlock, then err := fn(): the work function starts running
Admit(c, op) ==
  /\ mu' = 0
  /\ pc' = [pc EXCEPT ![c] = "work"]
  /\ workCount' = workCount + 1
  /\ last' = Event(op)
  /\ UNCHANGED ret

\* variant: entering HalfOpen keeps the old successCount
GateKeepCount(c) ==
  /\ pc[c] = "gate"
  /\ mu = c
  /\ IF state = Open
       THEN IF CooldownElapsed
              THEN /\ state' = HalfOpen
                   /\ UNCHANGED successCount
                   /\ Admit(c, "trial")
              ELSE Reject(c)
       ELSE /\ UNCHANGED <<state, successCount>>
            /\ Admit(c, "pass")
  /\ UNCHANGED <<failureThreshold, successThreshold, openTimeout,
                 failureCount, lastFailureTime, now, err>>
  /\ UNCHANGED retryVars

\* variant: HalfOpen lets one trial through at a time
GateSingleTrial(c) ==
  /\ pc[c] = "gate"
  /\ mu = c
  /\ IF state = Open
       THEN IF CooldownElapsed
              THEN /\ state' = HalfOpen
                   /\ successCount' = 0
                   /\ Admit(c, "trial")
              ELSE Reject(c)
       ELSE IF state = HalfOpen /\ \E d \in Callers : pc[d] = "work"
              THEN Reject(c)
              ELSE /\ UNCHANGED <<state, successCount>>
                   /\ Admit(c, "pass")
  /\ UNCHANGED <<failureThreshold, successThreshold, openTimeout,
                 failureCount, lastFailureTime, now, err>>
  /\ UNCHANGED retryVars

\* the gating step of Execute, under the lock
Gate(c) ==
  /\ pc[c] = "gate"
  /\ mu = c
  /\ IF state = Open
       THEN IF CooldownElapsed
              THEN /\ state' = HalfOpen
                   /\ successCount' = 0
                   /\ Admit(c, "trial")
              ELSE Reject(c)
       ELSE /\ UNCHANGED <<state, successCount>>
            /\ Admit(c, "pass")
  /\ UNCHANGED <<failureThreshold, successThreshold, openTimeout,
                 failureCount, lastFailureTime, now, err>>
  /\ UNCHANGED retryVars

\* fn() returns e
WorkReturn(c, e) ==
  /\ pc[c] = "work"
  /\ err' = [err EXCEPT ![c] = e]
  /\ pc' = [pc EXCEPT ![c] = "lock2"]
  /\ UNCHANGED <<state, failureThreshold, successThreshold, openTimeout,
                 failureCount, successCount, lastFailureTime, mu, now, ret,
                 workCount, last>>
  /\ UNCHANGED retryVars

\* cb.mu.Lock() after the work
Lock2(c) ==
  /\ pc[c] = "lock2"
  /\ mu = 0
  /\ mu' = c
  /\ pc' = [pc EXCEPT ![c] = "book"]
  /\ UNCHANGED <<state, failureThreshold, successThreshold, openTimeout,
                 failureCount, successCount, lastFailureTime, now, err, ret,
                 workCount, last>>
  /\ UNCHANGED retryVars

\* variant: a success in Closed leaves failureCount alone
onSuccessNoReset ==
  CASE state = HalfOpen ->
         /\ successCount' = successCount + 1
         /\ IF successCount + 1 >= successThreshold
              THEN state' = Closed /\ failureCount' = 0
              ELSE UNCHANGED <<state, failureCount>>
         /\ UNCHANGED lastFailureTime
    [] OTHER -> UNCHANGED <<state, failureCount, successCount, lastFailureTime>>

\* variant: closing needs one success more than successThreshold
onSuccessStrict ==
  CASE state = HalfOpen ->
         /\ successCount' = successCount + 1
         /\ IF successCount + 1 > successThreshold
              THEN state' = Closed /\ failureCount' = 0
              ELSE UNCHANGED <<state, failureCount>>
         /\ UNCHANGED lastFailureTime
    [] state = Closed ->
         /\ failureCount' = 0
         /\ UNCHANGED <<state, successCount, lastFailureTime>>
    [] OTHER -> UNCHANGED <<state, failureCount, successCount, lastFailureTime>>

\* variant: a success recorded while Open closes the breaker
onSuccessClosesOpen ==
  CASE state = HalfOpen ->
         /\ successCount' = successCount + 1
         /\ IF successCount + 1 >= successThreshold
              THEN state' = Closed /\ failureCount' = 0
              ELSE UNCHANGED <<state, failureCount>>
         /\ UNCHANGED lastFailureTime
    [] state = Closed ->
         /\ failureCount' = 0
         /\ UNCHANGED <<state, successCount, lastFailureTime>>
    [] OTHER ->
         /\ state' = Closed
         /\ failureCount' = 0
         /\ UNCHANGED <<successCount, lastFailureTime>>

\* cb.onSuccess()
onSuccess ==
  CASE state = HalfOpen ->
         /\ successCount' = successCount + 1
         /\ IF successCount + 1 >= successThreshold
              THEN state' = Closed /\ failureCount' = 0
              ELSE UNCHANGED <<state, failureCount>>
         /\ UNCHANGED lastFailureTime
    [] state = Closed ->
         /\ failureCount' = 0
         /\ UNCHANGED <<state, successCount, lastFailureTime>>
    [] OTHER -> UNCHANGED <<state, failureCount, successCount, lastFailureTime>>

\* variant: tripping needs one failure more than failureThreshold
onFailureLate ==
  CASE state = HalfOpen ->
         /\ state' = Open
         /\ lastFailureTime' = now
         /\ UNCHANGED <<failureCount, successCount>>
    [] state = Closed ->
         /\ failureCount' = failureCount + 1
         /\ IF failureCount + 1 > failureThreshold
              THEN state' = Open /\ lastFailureTime' = now
              ELSE UNCHANGED <<state, lastFailureTime>>
         /\ UNCHANGED successCount
    [] OTHER -> UNCHANGED <<state, failureCount, successCount, lastFailureTime>>

\* variant: a failed trial reopens without restarting the cooldown
onFailureNoClock ==
  CASE state = HalfOpen ->
         /\ state' = Open
         /\ UNCHANGED <<failureCount, successCount, lastFailureTime>>
    [] state = Closed ->
         /\ failureCount' = failureCount + 1
         /\ IF failureCount + 1 >= failureThreshold
              THEN state' = Open /\ lastFailureTime' = now
              ELSE UNCHANGED <<state, lastFailureTime>>
         /\ UNCHANGED successCount
    [] OTHER -> UNCHANGED <<state, failureCount, successCount, lastFailureTime>>

\* variant: a failure recorded while Open restarts the cooldown
onFailureRestartsInOpen ==
  CASE state = HalfOpen ->
         /\ state' = Open
         /\ lastFailureTime' = now
         /\ UNCHANGED <<failureCount, successCount>>
    [] state = Closed ->
         /\ failureCount' = failureCount + 1
         /\ IF failureCount + 1 >= failureThreshold
              THEN state' = Open /\ lastFailureTime' = now
              ELSE UNCHANGED <<state, lastFailureTime>>
         /\ UNCHANGED successCount
    [] OTHER ->
         /\ lastFailureTime' = now
         /\ UNCHANGED <<state, failureCount, successCount>>

\* variant: a failure recorded while Open is counted
onFailureCountsInOpen ==
  CASE state = HalfOpen ->
         /\ state' = Open
         /\ lastFailureTime' = now
         /\ UNCHANGED <<failureCount, successCount>>
    [] state = Closed ->
         /\ failureCount' = failureCount + 1
         /\ IF failureCount + 1 >= failureThreshold
              THEN state' = Open /\ lastFailureTime' = now
              ELSE UNCHANGED <<state, lastFailureTime>>
         /\ UNCHANGED successCount
    [] OTHER ->
         /\ failureCount' = failureCount + 1
         /\ UNCHANGED <<state, successCount, lastFailureTime>>

\* cb.onFailure()
onFailure ==
  CASE state = HalfOpen ->
         /\ state' = Open
         /\ lastFailureTime' = now
         /\ UNCHANGED <<failureCount, successCount>>
    [] state = Closed ->
         /\ failureCount' = failureCount + 1
         /\ IF failureCount + 1 >= failureThreshold
              THEN state' = Open /\ lastFailureTime' = now
              ELSE UNCHANGED <<state, lastFailureTime>>
         /\ UNCHANGED successCount
    [] OTHER -> UNCHANGED <<state, failureCount, successCount, lastFailureTime>>

\* variant: every work error is reported as the same error
ExecuteResultFixed(e) == IF e = Nil THEN Nil ELSE "errTest"

\* what Execute returns after the work returned e
ExecuteResult(e) == e

\* the bookkeeping of Execute, under the lock; the deferred Unlock runs on return
Book(c) ==
  /\ pc[c] = "book"
  /\ mu = c
  /\ IF err[c] = Nil THEN onSuccess ELSE onFailure
  /\ ret' = [ret EXCEPT ![c] = ExecuteResult(err[c])]
  /\ last' = Event(IF err[c] = Nil THEN "onSuccess" ELSE "onFailure")
  /\ mu' = 0
  /\ pc' = [pc EXCEPT ![c] = "idle"]
  /\ UNCHANGED <<failureThreshold, successThreshold, openTimeout, now, err, workCount>>
  /\ UNCHANGED retryVars

\* the wall clock advances
Tick ==
  /\ now < MaxTime
  /\ now' = now + 1
  /\ UNCHANGED <<state, failureThreshold, successThreshold, openTimeout,
                 failureCount, successCount, lastFailureTime, mu, pc, err, ret,
                 workCount, last>>
  /\ UNCHANGED retryVars

\* ---------------------------------------------------------------- Retry
\* entry of Retry: var err error; delay := initialDelay; i at the first index
RetryEntry(N, d) ==
  /\ attempts = N
  /\ initialDelay = d
  /\ i = 0
  /\ delay = d
  /\ retryErr = Nil
  /\ rpc = "for"
  /\ rret = None
  /\ fnCalls = 0
  /\ waits = <<>>

InitRetry ==
  /\ \E N \in 0..MaxAttempts, d \in 0..MaxDelay : RetryEntry(N, d)
  /\ fn \in [1..MaxAttempts + 1 -> WorkResults]
  /\ ctxErr = None
  /\ cancelPc = None
  /\ cancelCalls = 0

\* Retry is not running
RetryIdle ==
  /\ RetryEntry(0, 0)
  /\ fn = [j \in 1..MaxAttempts + 1 |-> Nil]
  /\ ctxErr = None
  /\ cancelPc = None
  /\ cancelCalls = 0

RetryReturn(v) ==
  /\ rret' = v
  /\ rpc' = "done"

\* for i := range attempts: the loop condition; after the loop, return err
RetryFor ==
  /\ rpc = "for"
  /\ IF i < attempts
       THEN rpc' = "check" /\ UNCHANGED rret
       ELSE RetryReturn(retryErr)
  /\ UNCHANGED <<attempts, initialDelay, fn, ctxErr, i, delay, retryErr, fnCalls,
                 cancelPc, cancelCalls>>
  /\ UNCHANGED waits
  /\ UNCHANGED cbVars

\* variant: the iteration does not look at ctx before invoking fn
RetryCheckBlind ==
  /\ rpc = "check"
  /\ fnCalls' = fnCalls + 1
  /\ rpc' = "work"
  /\ UNCHANGED rret
  /\ UNCHANGED <<attempts, initialDelay, fn, ctxErr, i, delay, retryErr,
                 cancelPc, cancelCalls>>
  /\ UNCHANGED waits
  /\ UNCHANGED cbVars

\* select { case <-ctx.Done(): return ctx.Err(); default: } and, when the
\* default branch is taken, err = fn(): fn starts running.  (A cancellation
\* after the default branch was taken is a cancellation during the invocation.)
RetryCheck ==
  /\ rpc = "check"
  /\ IF ctxErr # None
       THEN RetryReturn(ctxErr) /\ UNCHANGED fnCalls
       ELSE /\ fnCalls' = fnCalls + 1
            /\ rpc' = "work"
            /\ UNCHANGED rret
  /\ UNCHANGED <<attempts, initialDelay, fn, ctxErr, i, delay, retryErr,
                 cancelPc, cancelCalls>>
  /\ UNCHANGED waits
  /\ UNCHANGED cbVars

\* variant: the attempt before the last one is taken for the last
IsLastAttemptEarly == i = attempts - 2

\* i == attempts-1
IsLastAttempt == i = attempts - 1

\* variant: a success does not end the loop before the last attempt
RetryWorkReturnNoExit ==
  /\ rpc = "work"
  /\ retryErr' = fn[fnCalls]
  /\ IF IsLastAttempt
       THEN RetryReturn(fn[fnCalls]) /\ UNCHANGED waits
       ELSE /\ rpc' = "wait"
            /\ waits' = Append(waits, delay)
            /\ UNCHANGED rret
  /\ UNCHANGED <<attempts, initialDelay, fn, ctxErr, i, delay, fnCalls,
                 cancelPc, cancelCalls>>
  /\ UNCHANGED cbVars

\* fn returns; success returns nil, the last attempt breaks out of the loop
\* and returns err, any other failure goes to the wait
RetryWorkReturn ==
  /\ rpc = "work"
  /\ retryErr' = fn[fnCalls]
  /\ IF fn[fnCalls] = Nil
       THEN RetryReturn(Nil) /\ UNCHANGED waits
       ELSE IF IsLastAttempt
              THEN RetryReturn(fn[fnCalls]) /\ UNCHANGED waits
              ELSE /\ rpc' = "wait"
                   /\ waits' = Append(waits, delay)
                   /\ UNCHANGED rret
  /\ UNCHANGED <<attempts, initialDelay, fn, ctxErr, i, delay, fnCalls,
                 cancelPc, cancelCalls>>
  /\ UNCHANGED cbVars

\* variant: the delay is not doubled after a wait
RetryTimerNoDouble ==
  /\ rpc = "wait"
  /\ ctxErr = None \/ delay = 0 \/ cancelPc = "wait"
  /\ i' = i + 1
  /\ rpc' = "for"
  /\ UNCHANGED <<attempts, initialDelay, fn, ctxErr, delay, retryErr, rret, fnCalls,
                 cancelPc, cancelCalls>>
  /\ UNCHANGED waits
  /\ UNCHANGED cbVars

\* case <-time.After(delay): delay *= 2, next iteration.  When ctx was done
\* before the select was entered and delay > 0, only ctx.Done() is ready.
RetryTimer ==
  /\ rpc = "wait"
  /\ ctxErr = None \/ delay = 0 \/ cancelPc = "wait"
  /\ delay' = delay * 2
  /\ i' = i + 1
  /\ rpc' = "for"
  /\ UNCHANGED <<attempts, initialDelay, fn, ctxErr, retryErr, rret, fnCalls,
                 cancelPc, cancelCalls>>
  /\ UNCHANGED waits
  /\ UNCHANGED cbVars

\* variant: the interrupted wait reports the pending work error
RetryWaitCancelledWorkErr ==
  /\ rpc = "wait"
  /\ ctxErr # None
  /\ RetryReturn(retryErr)
  /\ UNCHANGED <<attempts, initialDelay, fn, ctxErr, i, delay, retryErr, fnCalls,
                 cancelPc, cancelCalls>>
  /\ UNCHANGED waits
  /\ UNCHANGED cbVars

\* case <-ctx.Done(): return ctx.Err()
RetryWaitCancelled ==
  /\ rpc = "wait"
  /\ ctxErr # None
  /\ RetryReturn(ctxErr)
  /\ UNCHANGED <<attempts, initialDelay, fn, ctxErr, i, delay, retryErr, fnCalls,
                 cancelPc, cancelCalls>>
  /\ UNCHANGED waits
  /\ UNCHANGED cbVars

\* the context is cancelled (or its deadline passes) while Retry runs
Cancel(e) ==
  /\ ctxErr = None
  /\ rpc # "done"
  /\ ctxErr' = e
  /\ cancelPc' = rpc
  /\ cancelCalls' = fnCalls
  /\ UNCHANGED <<attempts, initialDelay, fn, i, delay, retryErr, rpc, rret, fnCalls>>
  /\ UNCHANGED waits
  /\ UNCHANGED cbVars

Init == InitCB /\ RetryIdle

\* a breaker that nobody calls
CBIdle ==
  /\ NewCircuitBreaker(1, 1, 0)
  /\ now = 1
  /\ pc = [c \in Callers |-> "idle"]
  /\ err = [c \in Callers |-> None]
  /\ ret = [c \in Callers |-> None]
  /\ workCount = 0
  /\ last = NoEvent

InitR == InitRetry /\ CBIdle

NextRetry ==
  \/ RetryFor
  \/ RetryCheck
  \/ RetryWorkReturn
  \/ RetryTimer
  \/ RetryWaitCancelled
  \/ \E e \in CtxErrors : Cancel(e)

SpecRetry == InitR /\ [][NextRetry]_vars

Next ==
  \/ \E c \in Callers : Lock1(c)
  \/ \E c \in Callers : Gate(c)
  \/ \E c \in Callers, e \in WorkResults : WorkReturn(c, e)
  \/ \E c \in Callers : Lock2(c)
  \/ \E c \in Callers : Book(c)
  \/ Tick

Spec == Init /\ [][Next]_vars

\* ---------------------------------------------------------------- Retry of Execute
\* Retry(ctx, N, d, func() error { return cb.Execute(work) }) by one goroutine
\* (caller 1), with a work function that always fails and a context that is
\* never cancelled.  Time passes in the waits only.  The variable fn is not
\* used: Retry's function is the call of Execute.

\* the longest total backoff a Retry of the model can have
MaxBackoff == MaxDelay * (2^MaxAttempts)

InitNested ==
  /\ \E F \in 1..MaxThreshold, S \in 1..MaxThreshold, T \in 0..MaxTimeout + MaxBackoff :
       NewCircuitBreaker(F, S, T)
  /\ now = 1
  /\ pc = [c \in Callers |-> "idle"]
  /\ err = [c \in Callers |-> None]
  /\ ret = [c \in Callers |-> None]
  /\ workCount = 0
  /\ last = NoEvent
  /\ \E N \in 0..MaxAttempts, d \in 0..MaxDelay : RetryEntry(N, d)
  /\ fn = [j \in 1..MaxAttempts + 1 |-> Nil]
  /\ ctxErr = None
  /\ cancelPc = None
  /\ cancelCalls = 0

\* err = fn() has been reached: the function calls cb.Execute, which locks
NestedExecute ==
  /\ rpc = "work"
  /\ ret[1] = None
  /\ Lock1(1)

\* work() inside Execute returns an error
NestedWork == \E e \in WorkErrors : WorkReturn(1, e)

\* cb.Execute has returned, and so has fn: Retry looks at the result
NestedReturn ==
  /\ rpc = "work"
  /\ pc[1] = "idle"
  /\ ret[1] # None
  /\ retryErr' = ret[1]
  /\ ret' = [ret EXCEPT ![1] = None]
  /\ IF ret[1] = Nil
       THEN RetryReturn(Nil) /\ UNCHANGED waits
       ELSE IF IsLastAttempt
              THEN RetryReturn(ret[1]) /\ UNCHANGED waits
              ELSE /\ rpc' = "wait"
                   /\ waits' = Append(waits, delay)
                   /\ UNCHANGED rret
  /\ UNCHANGED <<attempts, initialDelay, fn, ctxErr, i, delay, fnCalls,
                 cancelPc, cancelCalls>>
  /\ UNCHANGED <<state, failureThreshold, successThreshold, openTimeout,
                 failureCount, successCount, lastFailureTime, mu, now, pc, err,
                 workCount, last>>

\* case <-time.After(delay): the clock has advanced by delay; delay *= 2
NestedTimer ==
  /\ rpc = "wait"
  /\ now' = now + delay
  /\ delay' = delay * 2
  /\ i' = i + 1
  /\ rpc' = "for"
  /\ UNCHANGED <<attempts, initialDelay, fn, ctxErr, retryErr, rret, fnCalls,
                 cancelPc, cancelCalls, waits>>
  /\ UNCHANGED <<state, failureThreshold, successThreshold, openTimeout,
                 failureCount, successCount, lastFailureTime, mu, pc, err, ret,
                 workCount, last>>

NextNested ==
  \/ RetryFor
  \/ RetryCheck
  \/ NestedExecute
  \/ Gate(1)
  \/ NestedWork
  \/ Lock2(1)
  \/ Book(1)
  \/ NestedReturn
  \/ NestedTimer

SpecNested == InitNested /\ [][NextNested]_vars

\* ---------------------------------------------------------------- properties
\* steps of Execute, recognised from outside the actions
GateStep(c) == pc[c] = "gate" /\ pc'[c] # "gate"
BookStep(c) == pc[c] = "book" /\ pc'[c] = "idle"
InCooldown == now - lastFailureTime <= openTimeout

\* C1: a gating step that runs while the state is Open and no more than
\* openTimeout has passed since lastFailureTime returns ErrCircuitOpen and
\* does not invoke work (the work counter is unchanged, the local err unset).
RejectionWhileOpen ==
  [][\A c \in Callers :
       (GateStep(c) /\ state = Open /\ InCooldown)
         => /\ pc'[c] = "idle"
            /\ ret'[c] = ErrCircuitOpen
            /\ err'[c] = None
            /\ workCount' = workCount]_vars

\* every caller has been rejected by the Open breaker, still in cooldown
RejectionWhileOpenWitness ==
  /\ state = Open
  /\ InCooldown
  /\ last.op = "reject"
  /\ workCount = failureThreshold
  /\ \A c \in Callers : pc[c] = "idle" /\ ret[c] = ErrCircuitOpen

\* C2: a failure recorded in Closed finds failureCount below the threshold,
\* adds one to it, and opens the breaker exactly when the count reaches
\* failureThreshold; below it the breaker stays Closed.
TripThreshold ==
  [][\A c \in Callers :
       (BookStep(c) /\ err[c] # Nil /\ state = Closed)
         => /\ failureCount < failureThreshold
            /\ failureCount' = failureCount + 1
            /\ state' = IF failureCount + 1 = failureThreshold THEN Open ELSE Closed]_vars

\* the breaker has just tripped at the second of two failures
TripThresholdWitness ==
  /\ failureThreshold = 2
  /\ last.op = "onFailure"
  /\ last.state = Closed
  /\ last.failureCount = 1
  /\ state = Open
  /\ failureCount = 2

HalfOpenTrialAdmission ==
  [][\A c \in Callers :
       (GateStep(c) /\ state = Open /\ ~InCooldown)
         => /\ state' = HalfOpen
            /\ successCount' = 0
            /\ pc'[c] = "work"
            /\ ret'[c] = None
            /\ workCount' = workCount + 1]_vars

\* a trial admitted in the first Open period, after another caller was
\* rejected in that period
HalfOpenTrialAdmissionWitness ==
  /\ last.op = "trial"
  /\ lastFailureTime = 1
  /\ state = HalfOpen
  /\ successCount = 0
  /\ \E c \in Callers : pc[c] = "work"
  /\ \E c \in Callers : pc[c] = "idle" /\ ret[c] = ErrCircuitOpen

\* C5: a failure recorded in HalfOpen sets the state to Open and
\* lastFailureTime to the time of the recording; while the breaker is Open and
\* within openTimeout of lastFailureTime it stays Open with the same
\* lastFailureTime, and every gating step in that window is rejected.
HalfOpenFailureReopens ==
  [][/\ \A c \in Callers :
          (BookStep(c) /\ err[c] # Nil /\ state = HalfOpen)
            => (state' = Open /\ lastFailureTime' = now)
     /\ (state = Open /\ InCooldown)
          => (state' = Open /\ lastFailureTime' = lastFailureTime)
     /\ \A c \in Callers :
          (GateStep(c) /\ state = Open /\ InCooldown)
            => (ret'[c] = ErrCircuitOpen /\ pc'[c] = "idle")]_vars

\* a trial has just failed, and the cooldown starts over at this moment
HalfOpenFailureReopensWitness ==
  /\ last.op = "onFailure"
  /\ last.state = HalfOpen
  /\ state = Open
  /\ openTimeout > 0
  /\ lastFailureTime = now

\* C6: entering HalfOpen sets successCount to 0; a success recorded in
\* HalfOpen finds successCount below the threshold, adds one to it, and closes
\* the breaker with failureCount = 0 exactly when the count reaches
\* successThreshold; below it the breaker stays HalfOpen.
HalfOpenClose ==
  [][/\ (state # HalfOpen /\ state' = HalfOpen) => successCount' = 0
     /\ \A c \in Callers :
          (BookStep(c) /\ err[c] = Nil /\ state = HalfOpen)
            => /\ successCount < successThreshold
               /\ successCount' = successCount + 1
               /\ IF successCount + 1 = successThreshold
                    THEN state' = Closed /\ failureCount' = 0
                    ELSE state' = HalfOpen]_vars

\* the second of two successes has just closed the breaker
HalfOpenCloseWitness ==
  /\ successThreshold = 2
  /\ last.op = "onSuccess"
  /\ last.state = HalfOpen
  /\ last.successCount = 1
  /\ last.failureCount > 0
  /\ state = Closed
  /\ failureCount = 0

RetryBoundedAttempts ==
  (/\ rpc = "done"
   /\ ctxErr = None
   /\ attempts >= 1
   /\ \A j \in 1..attempts : fn[j] # Nil)
    => (fnCalls = attempts /\ rret = fn[attempts])

RetryBoundedAttemptsWitness ==
  /\ rpc = "done"
  /\ ctxErr = None
  /\ attempts = 3
  /\ initialDelay = 1
  /\ \A j \in 1..attempts : fn[j] # Nil
  /\ fn[2] # fn[3]
  /\ fnCalls = 3
  /\ rret = fn[3]

\* C9: when work fails on its first k invocations and succeeds on the next,
\* k < attempts, and the context is not cancelled, a returned Retry has
\* invoked work exactly k+1 times and returned nil.
RetryEarlySuccess ==
  (rpc = "done" /\ ctxErr = None)
    => \A k \in 0..attempts - 1 :
         ((\A j \in 1..k : fn[j] # Nil) /\ fn[k + 1] = Nil)
           => (fnCalls = k + 1 /\ rret = Nil)

\* two failures, then a success on the third of three attempts
RetryEarlySuccessWitness ==
  /\ rpc = "done"
  /\ ctxErr = None
  /\ attempts = 3
  /\ fn[1] # Nil /\ fn[2] # Nil /\ fn[3] = Nil
  /\ fnCalls = 3
  /\ rret = Nil

\* C10 as stated: once the context was cancelled while Retry ran, Retry
\* returns the context's error and work is not invoked after the cancellation.
RetryCancellationPrecedence ==
  (ctxErr # None /\ attempts >= 1)
    => /\ fnCalls = cancelCalls
       /\ rpc = "done" => rret = ctxErr

\* C10 amended: a cancellation that comes before an iteration's check or
\* during a wait makes Retry return the context's error with no further
\* invocation of work; a cancellation that comes while work is running is not
\* looked at until work returns: that invocation is the last one, and Retry
\* returns nil if it succeeds, its error if it was the last attempt, and the
\* context's error otherwise.
RetryCancellationObserved ==
  (ctxErr # None /\ attempts >= 1)
    => /\ fnCalls = cancelCalls
       /\ rpc = "done"
            => rret = IF cancelPc = "work" /\ fn[fnCalls] = Nil THEN Nil
                      ELSE IF cancelPc = "work" /\ fnCalls = attempts THEN fn[fnCalls]
                      ELSE ctxErr

\* cancelled during a wait with a work error pending: the context's error wins
RetryCancellationObservedWitness ==
  /\ rpc = "done"
  /\ cancelPc = "wait"
  /\ retryErr # Nil
  /\ rret = ctxErr
  /\ fnCalls = cancelCalls
  /\ fnCalls < attempts

\* Scheduling: a goroutine that holds the lock goes on to release it, and
\* sync.Mutex hands the lock to a waiter that keeps asking (starvation mode).
\* Nothing makes a work function return, a caller call again, or time pass.
Fairness ==
  \A c \in Callers :
    /\ WF_vars(Gate(c))
    /\ WF_vars(Book(c))
    /\ SF_vars(Lock2(c))

\* the breaker that trips at the first failure, closes at the first success
\* and has no cooldown beyond the current tick
InitFair == CBIdle /\ RetryIdle

SpecFair == InitFair /\ [][Next]_vars /\ Fairness

\* C11: a caller whose work function is running never holds the mutex; so
\* whatever the other callers' work functions do, a caller that took the lock
\* for gating gets through the gate, and a caller whose own work returned gets
\* the lock, does its bookkeeping and returns.
LockNotHeldAcrossWork ==
  /\ [](\A c \in Callers : pc[c] = "work" => mu # c)
  /\ \A c \in Callers : (pc[c] \in {"gate", "lock2"}) ~> (pc[c] \in {"work", "idle"})

\* one caller has returned from Execute while the other's work is still running
LockNotHeldAcrossWorkWitness ==
  /\ mu = 0
  /\ pc[1] = "work"
  /\ pc[2] = "idle"
  /\ ret[2] \in WorkResults
  /\ last.op \in {"onSuccess", "onFailure"}
  /\ workCount = 2

BookkeepingNeverInOpen ==
  last.op \in {"onSuccess", "onFailure"} => last.state \in {Closed, HalfOpen}

\* C13 amended: bookkeeping can find the breaker Open (the call was admitted
\* before another caller's failure opened it); it then records nothing: state,
\* failureCount, successCount and lastFailureTime stay as they are.
OpenBookkeepingIsNoOp ==
  [][\A c \in Callers :
       (BookStep(c) /\ state = Open)
         => UNCHANGED <<state, failureCount, successCount, lastFailureTime>>]_vars

\* a success has just been dropped by bookkeeping that found the breaker Open,
\* after the clock moved on from the failure that opened it
OpenBookkeepingIsNoOpWitness ==
  /\ last.op = "onSuccess"
  /\ last.state = Open
  /\ state = Open
  /\ failureCount = failureThreshold
  /\ lastFailureTime < now
  /\ \E c \in Callers : pc[c] = "idle" /\ ret[c] = Nil

\* C14: the state starts Closed, is always one of Closed, Open, HalfOpen, and
\* changes only by Closed->Open, Open->HalfOpen, HalfOpen->Open and
\* HalfOpen->Closed.
StateMachineShape ==
  /\ state = Closed
  /\ [](state \in States)
  /\ [][state' # state
          => <<state, state'>> \in {<<Closed, Open>>, <<Open, HalfOpen>>,
                                    <<HalfOpen, Open>>, <<HalfOpen, Closed>>}]_vars

\* HalfOpen entered for the second time: the breaker left its first HalfOpen
\* for Open again, directly or through Closed
StateMachineShapeWitness ==
  /\ state = HalfOpen
  /\ last.op = "trial"
  /\ last.state = Open
  /\ lastFailureTime > 1

\* C15: every recording of a failed work invocation, in any state, and every
\* entry to Open sets lastFailureTime to the time of that event.
LastFailureTimeTracksFailures ==
  [][/\ \A c \in Callers :
          (BookStep(c) /\ err[c] # Nil) => lastFailureTime' = now
     /\ (state # Open /\ state' = Open) => lastFailureTime' = now]_vars

\* C16: without cancellation, Retry has started exactly one wait after each
\* invocation of work but the current or last one (none once it has returned),
\* and the k-th wait lasts initialDelay * 2^(k-1).
RetryWaitSequence ==
  ctxErr = None
    => /\ \A k \in 1..Len(waits) : waits[k] = initialDelay * 2^(k - 1)
       /\ rpc \in {"for", "check", "wait"} => Len(waits) = fnCalls
       /\ rpc = "work" => Len(waits) = fnCalls - 1
       /\ rpc = "done" => Len(waits) = IF fnCalls = 0 THEN 0 ELSE fnCalls - 1

\* three failed attempts with initialDelay 1: waits of 1 and 2, none after the third
RetryWaitSequenceWitness ==
  /\ rpc = "done"
  /\ ctxErr = None
  /\ attempts = 3
  /\ fnCalls = 3
  /\ rret \in WorkErrors
  /\ waits = <<1, 2>>

\* C17: an iteration that begins with the context already cancelled returns
\* the context's error without invoking work, whatever error an earlier
\* attempt left in err; a Retry whose context was cancelled before its first
\* iteration never invokes work.
RetryPreCheck ==
  /\ [][(rpc = "check" /\ ctxErr # None)
          => (rpc' = "done" /\ rret' = ctxErr /\ fnCalls' = fnCalls)]_vars
  /\ []((ctxErr # None /\ cancelPc = "for" /\ cancelCalls = 0) => fnCalls = 0)

\* the timer of a wait fired, the next iteration found the context cancelled:
\* Retry returned the context's error, not the work error of the earlier attempt
RetryPreCheckWitness ==
  /\ rpc = "done"
  /\ ctxErr # None
  /\ rret = ctxErr
  /\ retryErr \in WorkErrors
  /\ i >= 1
  /\ i = fnCalls
  /\ i < attempts

\* C18: failureCount stays within 0..failureThreshold and successCount within
\* 0..successThreshold; failureCount is below its threshold whenever the
\* breaker is Closed, successCount below its threshold whenever it is HalfOpen.
CounterBounds ==
  /\ failureCount \in 0..failureThreshold
  /\ successCount \in 0..successThreshold
  /\ state = Closed => failureCount < failureThreshold
  /\ state = HalfOpen => successCount < successThreshold

\* both counters at their thresholds: the breaker closed from HalfOpen and
\* was tripped again
CounterBoundsWitness ==
  /\ failureCount = failureThreshold
  /\ successCount = successThreshold
  /\ state = Open
  /\ last.op = "onFailure"
  /\ last.state = Closed

\* C19: the step by which an Execute call returns ErrCircuitOpen leaves state,
\* failureCount, successCount and lastFailureTime as they were and the mutex
\* free.
RejectedCallChangesNothing ==
  [][\A c \in Callers :
       (GateStep(c) /\ ret'[c] = ErrCircuitOpen)
         => /\ UNCHANGED <<state, failureCount, successCount, lastFailureTime>>
            /\ mu' = 0]_vars

\* a call has just been rejected some time into the cooldown, which still
\* counts from the moment the breaker opened
RejectedCallChangesNothingWitness ==
  /\ last.op = "reject"
  /\ mu = 0
  /\ state = Open
  /\ openTimeout > 0
  /\ lastFailureTime < now
  /\ \E c \in Callers : pc[c] = "idle" /\ ret[c] = ErrCircuitOpen

\* C20: a Retry of a breaker-guarded work that always fails, on a fresh
\* breaker, with a total backoff shorter than openTimeout, has invoked work
\* min(attempts, failureThreshold) times when it returns; it returns the work
\* error when attempts <= failureThreshold and ErrCircuitOpen when
\* attempts > failureThreshold, and the breaker is Open when
\* attempts >= failureThreshold.
TotalBackoff == initialDelay * (2^(attempts - 1) - 1)

====
